---- MODULE Spec2Model ----
(***************************************************************************)
(* Interception and approval protocol of the Intercepta browser extension: *)
(* the Provider Interceptor (contents/ethereum-intercept.ts, MAIN world),  *)
(* the Cross-Context Relay (contents/relay.ts), the Approval Coordinator   *)
(* (background.ts) and the Review Surface (popup.tsx).                     *)
(*                                                                         *)
(* Every asynchronous callback of the code (storage get/set callbacks,     *)
(* message deliveries, timers) is one action, so the interleavings that    *)
(* the browser's event loops allow are the interleavings of the model.     *)
(*                                                                         *)
(* Spec is the protocol on a page whose provider is wrapped; InstallSpec   *)
(* is the installation of the wrappers (initial check, property accessor,  *)
(* poller, ready events); HistorySpec runs the variant of the background   *)
(* script that also keeps intercepted_transactions.                        *)
(***************************************************************************)
EXTENDS Integers, Sequences, FiniteSets, TLC

\* ---- bounds ------------------------------------------------------------
MaxCalls   == 2     \* reviewable calls the page issues
MaxDecides == 2     \* decide requests of the Review Surface in flight at once
MaxTabs    == 2     \* tab ids the browser may give the page

MaxProviders == 3   \* provider objects a page may bind to window.ethereum
MaxRecords == 101   \* history length up to which TRANSACTION_INTERCEPTED keeps arriving
MaxReposts == 1     \* copies of an interception message that page scripts post
MaxRefreshes == 2   \* updateBadgeCount() reads in flight up to which UPDATE_BADGE is taken
MaxPasses  == 1     \* calls of methods outside transactionMethods the page issues

\* const transactionMethods = [...]
transactionMethods ==
  << "eth_sendTransaction", "eth_signTransaction", "eth_sendRawTransaction",
     "eth_sign", "personal_sign", "eth_signTypedData", "eth_signTypedData_v1",
     "eth_signTypedData_v3", "eth_signTypedData_v4", "wallet_sendDomainMetadata",
     "wallet_addEthereumChain", "wallet_switchEthereumChain" >>

\* an includes that does not look at the last element
IncludesButLast(list, x) == \E i \in 1..(Len(list) - 1) : list[i] = x

\* Array.prototype.includes: strict equality with some element
Includes(list, x) == \E i \in 1..Len(list) : list[i] = x

\* method names a page may pass that are not in the list
OtherMethods == {"eth_accounts", "eth_requestAccounts", "eth_chainId", "eth_signTypedData_v2"}

\* args.method of the calls the page issues
Methods == {transactionMethods[i] : i \in 1..Len(transactionMethods)} \cup OtherMethods

\* how the wallet's own request() may end
ProviderReturns == {"wallet result", "wallet error"}

\* "Keep only last 100 transactions"
HistoryCap == 100

Ids   == 1..MaxCalls
Slots == 1..MaxDecides
Tabs  == 1..MaxTabs
Providers == 1..MaxProviders

\* provider.providers: provider 1 is a multi-wallet host that lists provider 2
providersOf == [p \in Providers |-> IF p = 1 THEN << 2 >> ELSE << >>]

\* The scenarios explored: many calls decided one request at a time, one call
\* with several decide requests in flight at once, one call of any reviewable
\* method and calls of methods that are not reviewed, and one call whose
\* interception message is posted again by a script of the page.
Workloads ==
  { [calls |-> MaxCalls, decides |-> 1, methods |-> {"eth_sendTransaction"},
     passes |-> 0, reposts |-> 0],
    [calls |-> 1, decides |-> MaxDecides, methods |-> {"eth_sendTransaction"},
     passes |-> 0, reposts |-> 0],
    [calls |-> 1, decides |-> 1, methods |-> Methods, passes |-> MaxPasses, reposts |-> 0],
    [calls |-> 1, decides |-> 1, methods |-> {"eth_sendTransaction"},
     passes |-> 0, reposts |-> MaxReposts] }

VARIABLES
  workload,             \* the scenario: calls the page issues, concurrent decides
  method,               \* per call: args.method of the reviewable call
  passThrough,          \* the calls of other methods: args, forwarded args, the
                        \* wallet's return and the page's result
  forwarded,            \* per call: args and result of originalRequest(args)
  pageResult,           \* per call: what the page's promise settled with
  reposted,             \* messages posted into the page by other scripts than the extension's
  \* Provider Interceptor (page, MAIN world)
  interceptCount,       \* calls intercepted so far; the next fresh id
  pendingTransactions,  \* keys of the Map of outstanding approval promises
  timers,               \* ids whose 5-minute setTimeout has not fired yet
  outcome,              \* per call: how the wrapped request() ended
  originalCalls,        \* per call: invocations of originalRequest(args)
  delivered,            \* PLASMO_TRANSACTION_RESPONSE events the listener saw
  \* installation of the interceptor; 0 stands for undefined
  installed,            \* whether the content script's body has run
  ethereum,             \* the provider bound to window.ethereum
  hasRequest,           \* per provider: whether it has a request method
  layers,               \* per provider: wrappers installed around its request
  wrappedProviders,     \* the WeakSet of providers seen by wrapRequestMethod
  wrapTasks,            \* providers of pending setTimeout(wrapRequestMethod, 0)
  lastEthereum,         \* the binding the poller saw last
  polling,              \* whether the 500 ms interval is still set
  docEvents,            \* of DOMContentLoaded and load, those yet to fire
  lastCall,             \* latest call observed: provider and messages posted
  \* page-global window.postMessage channel
  pageChan,
  \* Cross-Context Relay (ISOLATED world)
  relayPresent,         \* whether the relay content script is loaded
  pageTab,              \* sender.tab.id of the page
  relaySend,            \* per call: state of chrome.runtime.sendMessage
  \* Approval Coordinator (background service worker)
  storage,              \* chrome.storage.local[PENDING_KEY]
  submitH,              \* handlePendingTransaction instances, by call id
  decideH,              \* approve/rejectTransaction instances in flight
  tabMsgs,              \* chrome.tabs.sendMessage messages in flight
  notified,             \* per call: decision messages sent to a tab so far
  badgeText, badgeColor,
  badgeRefresh,         \* updateBadgeCount() storage reads in flight
  \* history-retaining Approval Coordinator
  history,              \* chrome.storage.local[STORAGE_KEY]
  recordH,              \* the handleTransactionIntercepted instance in flight
  \* Review Surface
  panelSnap,            \* pendingTransactions React state of the popup
  panelResp,            \* response to the latest decide request of each slot
  panelReq,             \* the popup's other requests to the background script, by type
  aiSummaries,          \* per call: state of the popup's risk analysis
  cleared               \* ids that a clear removed from pending_transactions

vars == << workload, reposted, method, passThrough, forwarded, pageResult, interceptCount, pendingTransactions, timers, outcome, originalCalls,
           delivered, pageChan, relayPresent, pageTab, relaySend, storage,
           submitH, decideH, tabMsgs, notified, badgeText, badgeColor,
           badgeRefresh, panelSnap, panelResp, installed, ethereum, hasRequest,
           layers, wrappedProviders, wrapTasks, lastEthereum, polling, docEvents,
           lastCall, history, recordH, panelReq, aiSummaries, cleared >>

interceptorVars == << workload, reposted, method, passThrough, forwarded, pageResult, interceptCount, pendingTransactions, timers, outcome,
                      originalCalls, delivered >>
coordVars == << storage, submitH, decideH, tabMsgs, notified, badgeText,
                badgeColor, badgeRefresh >>
panelVars == << panelSnap, panelResp >>
installVars == << installed, ethereum, hasRequest, layers, wrappedProviders, wrapTasks,
                  lastEthereum, polling, docEvents, lastCall >>
historyVars == << history, recordH >>
surfaceVars == << panelReq, aiSummaries, cleared >>
protocolVars == << interceptorVars, pageChan, relayPresent, pageTab, relaySend,
                   coordVars, panelVars, historyVars, surfaceVars >>

\* ---- helpers -----------------------------------------------------------
RECURSIVE toString(_)
\* Number.prototype.toString(): the decimal digits of n, most significant first
toString(n) == IF n < 10 THEN <<n>> ELSE toString(n \div 10) \o <<n % 10>>

\* findIndex whose predicate is true of every entry (tx.id = id for tx.id === id)
FindIndexAnyEntry(txs, id) == IF Len(txs) > 0 THEN 1 ELSE 0

\* Array.prototype.findIndex(tx => tx.id === id); 0 stands for -1
FindIndex(txs, id) ==
  IF \E i \in 1..Len(txs) : txs[i].id = id
    THEN CHOOSE i \in 1..Len(txs) :
           /\ txs[i].id = id
           /\ \A j \in 1..(i-1) : txs[j].id # id
    ELSE 0

\* Array.prototype.splice(i, 1)
Splice(txs, i) == SubSeq(txs, 1, i-1) \o SubSeq(txs, i+1, Len(txs))

\* Array.prototype.reverse()
Reverse(txs) == [i \in 1..Len(txs) |-> txs[Len(txs) + 1 - i]]

PendingIds(txs) == {txs[i].id : i \in 1..Len(txs)}

NoRecord == [pc |-> "none", data |-> <<>>, val |-> <<>>]

NotForwarded == [args |-> "none", returns |-> "none"]

NoHandler == [pc |-> "none", id |-> 0, approve |-> FALSE, tabId |-> 0, val |-> <<>>]

\* the message types the popup sends besides the two decisions
PanelRequests ==
  {"GET_TRANSACTIONS", "GET_PENDING_TRANSACTIONS", "TRANSACTION_INTERCEPTED", "UPDATE_BADGE"}

NoRequest == [pc |-> "none", transactions |-> <<>>, lastError |-> FALSE]

\* the protocol's state when the page has made no call yet
ProtocolInit ==
  /\ method = [i \in Ids |-> "none"]
  /\ passThrough = <<>>
  /\ forwarded = [i \in Ids |-> NotForwarded]
  /\ pageResult = [i \in Ids |-> "none"]
  /\ reposted = 0
  /\ interceptCount = 0
  /\ pendingTransactions = {}
  /\ timers = {}
  /\ outcome = [i \in Ids |-> "none"]
  /\ originalCalls = [i \in Ids |-> 0]
  /\ delivered = {}
  /\ pageChan = {}
  /\ relaySend = [i \in Ids |-> "none"]
  /\ storage = <<>>
  /\ submitH = [i \in Ids |-> [pc |-> "none", val |-> <<>>]]
  /\ decideH = [k \in Slots |-> NoHandler]
  /\ tabMsgs = {}
  /\ notified = [i \in Ids |-> 0]
  /\ badgeText = <<>>
  /\ badgeColor = "default"
  /\ badgeRefresh = 1
  /\ panelSnap = <<>>
  /\ panelResp = [k \in Slots |-> "none"]
  /\ history = <<>>
  /\ recordH = NoRecord
  /\ panelReq = [t \in PanelRequests |-> NoRequest]
  /\ aiSummaries = [i \in Ids |-> "none"]
  /\ cleared = {}

\* wrapRequestMethod(provider), on the WeakSet and the wrapper counts in w
WrapRequestMethodWithoutSkip(w, has, p) ==
  IF ~has[p]
    THEN [w EXCEPT !.wrapped = @ \cup {p}]
    ELSE [wrapped |-> w.wrapped \cup {p}, layers |-> [w.layers EXCEPT ![p] = @ + 1]]

\* wrapRequestMethod(provider), on the WeakSet and the wrapper counts in w
WrapRequestMethod(w, has, p) ==
  IF p \in w.wrapped
    THEN w
    ELSE IF ~has[p]
           THEN [w EXCEPT !.wrapped = @ \cup {p}]
           ELSE [wrapped |-> w.wrapped \cup {p}, layers |-> [w.layers EXCEPT ![p] = @ + 1]]

RECURSIVE WrapEach(_, _, _)
\* provider.providers.forEach(subProvider => wrapRequestMethod(subProvider))
WrapEach(w, has, subProviders) ==
  IF subProviders = << >>
    THEN w
    ELSE WrapEach(WrapRequestMethod(w, has, Head(subProviders)), has, Tail(subProviders))

\* checkAndWrapEthereum() with window.ethereum = eth
CheckAndWrapEthereum(w, has, eth) ==
  IF eth # 0
    THEN WrapEach(WrapRequestMethod(w, has, eth), has, providersOf[eth])
    ELSE w

NothingWrapped == [wrapped |-> {}, layers |-> [p \in Providers |-> 0]]
NoCall == [provider |-> 0, messages |-> 0]
AllHaveRequest == [p \in Providers |-> TRUE]

\* the page of the protocol: the script ran with provider 1 in place
Init ==
  /\ workload \in Workloads
  /\ relayPresent \in BOOLEAN
  /\ pageTab \in Tabs
  /\ ProtocolInit
  /\ installed = TRUE
  /\ ethereum = 1
  /\ hasRequest = AllHaveRequest
  /\ layers = CheckAndWrapEthereum(NothingWrapped, AllHaveRequest, 1).layers
  /\ wrappedProviders = CheckAndWrapEthereum(NothingWrapped, AllHaveRequest, 1).wrapped
  /\ wrapTasks = {}
  /\ lastEthereum = 1
  /\ polling = TRUE
  /\ docEvents = {"DOMContentLoaded", "load"}
  /\ lastCall = NoCall

\* ---- Provider Interceptor ----------------------------------------------
\* source is event.source of the MessageEvent: "window" for a message posted by
\* a script of the page itself, "other" for one posted by another window
\* status is data.status of the interception message ("none": no such field)
InterceptedWithoutStatus(id) ==
  [type |-> "PLASMO_ETHEREUM_INTERCEPTED", id |-> id, approved |-> FALSE, source |-> "window",
   status |-> "none"]
Intercepted(id) ==
  [type |-> "PLASMO_ETHEREUM_INTERCEPTED", id |-> id, approved |-> FALSE, source |-> "window",
   status |-> "pending"]
Response(id, approved) ==
  [type |-> "PLASMO_TRANSACTION_RESPONSE", id |-> id, approved |-> approved, source |-> "window",
   status |-> "none"]

WindowMessages ==
  {Intercepted(id) : id \in Ids} \cup {Response(id, a) : id \in Ids, a \in BOOLEAN}

\* the same envelopes posted into the page by a frame or an opener
ForeignMessages == {[m EXCEPT !.source = "other"] : m \in WindowMessages}

PageMessages == WindowMessages \cup ForeignMessages

\* how the setTimeout callback settles approvalPromise
TimeoutSettle == [kind |-> "reject", value |-> "Transaction approval timeout"]

\* a listener that resolves 'approved' whatever the approved flag says
ListenerSettleIgnoresFlag(approved) == [kind |-> "resolve", value |-> "approved"]

\* a listener that rejects with the error of the timer
ListenerSettleTimeoutError(approved) ==
  IF approved THEN [kind |-> "resolve", value |-> "approved"]
              ELSE [kind |-> "reject", value |-> "Transaction approval timeout"]

\* how the PLASMO_TRANSACTION_RESPONSE listener settles approvalPromise
ListenerSettle(approved) ==
  IF approved THEN [kind |-> "resolve", value |-> "approved"]
              ELSE [kind |-> "reject", value |-> "Transaction rejected by user"]

\* the code after `await approvalPromise`: what the page's call ends with,
\* whether originalRequest(args) is invoked, and the error thrown otherwise
\* (a rejection of approvalPromise is caught and rethrown as it is)
Await(s) ==
  IF s.kind = "resolve"
    THEN IF s.value = "approved"
           THEN [outcome |-> "approved", invoke |-> 1, error |-> "none"]
           ELSE [outcome |-> "rejected", invoke |-> 0, error |-> "Transaction rejected by user"]
    ELSE IF s.value = "Transaction approval timeout"
           THEN [outcome |-> "timeout", invoke |-> 0, error |-> s.value]
           ELSE [outcome |-> "rejected", invoke |-> 0, error |-> s.value]

\* a request() that catches the wallet's failure and throws its own error
SettleReplacesFailure(id, s) ==
  /\ pendingTransactions' = pendingTransactions \ {id}
  /\ outcome' = [outcome EXCEPT ![id] = Await(s).outcome]
  /\ originalCalls' = [originalCalls EXCEPT ![id] = @ + Await(s).invoke]
  /\ IF Await(s).invoke = 1
       THEN \E r \in ProviderReturns :
              /\ forwarded' = [forwarded EXCEPT ![id] = [args |-> method[id], returns |-> r]]
              /\ pageResult' = [pageResult EXCEPT ![id] =
                     IF r = "wallet error" THEN "Transaction rejected by user" ELSE r]
       ELSE /\ pageResult' = [pageResult EXCEPT ![id] = Await(s).error]
            /\ UNCHANGED forwarded

\* a settle that empties the whole pendingTransactions map
SettleClearsMap(id, s) ==
  /\ pendingTransactions' = {}
  /\ outcome' = [outcome EXCEPT ![id] = Await(s).outcome]
  /\ originalCalls' = [originalCalls EXCEPT ![id] = @ + Await(s).invoke]
  /\ IF Await(s).invoke = 1
       THEN \E r \in ProviderReturns :
              /\ forwarded' = [forwarded EXCEPT ![id] = [args |-> method[id], returns |-> r]]
              /\ pageResult' = [pageResult EXCEPT ![id] = r]
       ELSE /\ pageResult' = [pageResult EXCEPT ![id] = Await(s).error]
            /\ UNCHANGED forwarded

\* settle the promise stored under id and run the suspended request() to its
\* end: `return originalRequest(args)` hands the wallet's promise to the page
Settle(id, s) ==
  /\ pendingTransactions' = pendingTransactions \ {id}
  /\ outcome' = [outcome EXCEPT ![id] = Await(s).outcome]
  /\ originalCalls' = [originalCalls EXCEPT ![id] = @ + Await(s).invoke]
  /\ IF Await(s).invoke = 1
       THEN \E r \in ProviderReturns :
              /\ forwarded' = [forwarded EXCEPT ![id] = [args |-> method[id], returns |-> r]]
              /\ pageResult' = [pageResult EXCEPT ![id] = r]
       ELSE /\ pageResult' = [pageResult EXCEPT ![id] = Await(s).error]
            /\ UNCHANGED forwarded

\* a pass-through that hands the wallet an args object of its own making
PassThroughRebuildsArgs(m) ==
  \E r \in ProviderReturns :
    passThrough' = Append(passThrough,
                     [args |-> m, forwarded |-> "eth_call", returns |-> r, result |-> r])

\* `return originalRequest(args)` for a method outside transactionMethods
PassThrough(m) ==
  \E r \in ProviderReturns :
    passThrough' = Append(passThrough,
                     [args |-> m, forwarded |-> m, returns |-> r, result |-> r])

\* the wrapped provider.request(args) with args.method = m
Request(m) ==
  /\ m \in workload.methods
  /\ IF Includes(transactionMethods, m)
       THEN /\ interceptCount < workload.calls
            /\ LET id == interceptCount + 1 IN
                 /\ interceptCount' = id
                 /\ method' = [method EXCEPT ![id] = m]
                 /\ pendingTransactions' = pendingTransactions \cup {id}
                 /\ timers' = timers \cup {id}
                 /\ outcome' = [outcome EXCEPT ![id] = "suspended"]
                 /\ pageChan' = pageChan \cup {Intercepted(id)}
            /\ UNCHANGED passThrough
       ELSE /\ Len(passThrough) < workload.passes
            /\ PassThrough(m)
            /\ UNCHANGED << interceptCount, method, pendingTransactions, timers, outcome, pageChan >>
  /\ UNCHANGED << workload, reposted, forwarded, pageResult, originalCalls, delivered, relayPresent, pageTab, installVars, surfaceVars, historyVars, relaySend >>
  /\ UNCHANGED << coordVars, panelVars >>

\* a timer callback without the pendingTransactions.has(transactionId) test
TimeoutWithoutHasTest(id) ==
  /\ id \in timers
  /\ timers' = timers \ {id}
  /\ Settle(id, TimeoutSettle)
  /\ UNCHANGED << workload, reposted, method, passThrough, interceptCount, delivered, pageChan, relayPresent, pageTab, installVars, surfaceVars, historyVars, relaySend >>
  /\ UNCHANGED << coordVars, panelVars >>

\* the 5-minute timer of call id fires
Timeout(id) ==
  /\ id \in timers
  /\ timers' = timers \ {id}
  /\ IF id \in pendingTransactions
       THEN Settle(id, TimeoutSettle)
       ELSE UNCHANGED << pendingTransactions, outcome, originalCalls, forwarded, pageResult >>
  /\ UNCHANGED << workload, reposted, method, passThrough, interceptCount, delivered, pageChan, relayPresent, pageTab, installVars, surfaceVars, historyVars, relaySend >>
  /\ UNCHANGED << coordVars, panelVars >>

\* a listener that settles without looking the id up in pendingTransactions
InterceptorListenerNoLookup(m) ==
  IF m.source = "window" /\ m.type = "PLASMO_TRANSACTION_RESPONSE"
    THEN /\ delivered' = delivered \cup {[id |-> m.id, approved |-> m.approved]}
         /\ Settle(m.id, ListenerSettle(m.approved))
    ELSE UNCHANGED << pendingTransactions, outcome, originalCalls, forwarded, pageResult, delivered >>

\* the interceptor's window 'message' listener
InterceptorListener(m) ==
  IF m.source = "window" /\ m.type = "PLASMO_TRANSACTION_RESPONSE"
    THEN /\ delivered' = delivered \cup {[id |-> m.id, approved |-> m.approved]}
         /\ IF m.id \in pendingTransactions
              THEN Settle(m.id, ListenerSettle(m.approved))
              ELSE UNCHANGED << pendingTransactions, outcome, originalCalls, forwarded, pageResult >>
    ELSE UNCHANGED << pendingTransactions, outcome, originalCalls, forwarded, pageResult, delivered >>

\* window.postMessage(copy, '*') by a script of the page: every script of the
\* window receives the interceptor's PLASMO_ETHEREUM_INTERCEPTED event and can
\* post it again with source === window. Copies are posted once the first
\* submission of the id has been handled.
PageRepost(id) ==
  /\ reposted < workload.reposts
  /\ outcome[id] # "none"
  /\ submitH[id].pc \in {"done", "failed"}
  /\ reposted' = reposted + 1
  /\ pageChan' = pageChan \cup {Intercepted(id)}
  /\ UNCHANGED << workload, method, passThrough, forwarded, pageResult, interceptCount,
                  pendingTransactions, timers, outcome, originalCalls, delivered >>
  /\ UNCHANGED << relayPresent, pageTab, installVars, surfaceVars, historyVars, relaySend >>
  /\ UNCHANGED << coordVars, panelVars >>

\* window.postMessage(message, '*') on this window by a script of another
\* window (a frame of the page, or its opener): event.source is that window
ForeignPost(m) ==
  /\ reposted < workload.reposts
  /\ m \in ForeignMessages
  /\ reposted' = reposted + 1
  /\ pageChan' = pageChan \cup {m}
  /\ UNCHANGED << workload, method, passThrough, forwarded, pageResult, interceptCount,
                  pendingTransactions, timers, outcome, originalCalls, delivered >>
  /\ UNCHANGED << relayPresent, pageTab, installVars, surfaceVars, historyVars, relaySend >>
  /\ UNCHANGED << coordVars, panelVars >>

\* ---- Cross-Context Relay -----------------------------------------------
\* a relay listener without the event.source test
RelayListenerAnySource(m) ==
  IF relayPresent /\ m.type = "PLASMO_ETHEREUM_INTERCEPTED"
    THEN relaySend' = [relaySend EXCEPT ![m.id] = "sent"]
    ELSE UNCHANGED relaySend

\* the relay's window 'message' listener: forward to the background script
RelayListener(m) ==
  IF relayPresent /\ m.source = "window" /\ m.type = "PLASMO_ETHEREUM_INTERCEPTED"
    THEN relaySend' = [relaySend EXCEPT ![m.id] = "sent"]
    ELSE UNCHANGED relaySend

\* one window.postMessage event is dispatched to both listeners
PageMessage(m) ==
  /\ m \in pageChan
  /\ pageChan' = pageChan \ {m}
  /\ InterceptorListener(m)
  /\ RelayListener(m)
  /\ UNCHANGED << workload, reposted, method, passThrough, interceptCount, timers, relayPresent, pageTab, installVars, surfaceVars, historyVars >>
  /\ UNCHANGED << coordVars, panelVars >>

\* a sendMessage callback that only logs the error
ForwardFailurePostNothing(id, requiresApproval) == {}

\* what the sendMessage callback posts when chrome.runtime.lastError is set
ForwardFailurePost(id, requiresApproval) ==
  IF requiresApproval THEN {Response(id, FALSE)} ELSE {}

\* chrome.runtime.sendMessage could not reach the background script; the
\* interceptor posts every call with requiresApproval: true
RelayForwardFail(id) ==
  /\ relaySend[id] = "sent"
  /\ relaySend' = [relaySend EXCEPT ![id] = "failed"]
  /\ pageChan' = pageChan \cup ForwardFailurePost(id, TRUE)
  /\ UNCHANGED << interceptorVars, relayPresent, pageTab, installVars, surfaceVars, historyVars >>
  /\ UNCHANGED << coordVars, panelVars >>

\* a relay that answers with the id that follows the one it was told
RelayDecisionPostNextId(m) ==
  IF m.type = "TRANSACTION_APPROVED" \/ m.type = "TRANSACTION_REJECTED"
    THEN {Response(IF m.transactionId < MaxCalls THEN m.transactionId + 1 ELSE m.transactionId,
                   m.type = "TRANSACTION_APPROVED")}
    ELSE {}

\* a relay that reports every decision as an approval
RelayDecisionPostApproves(m) ==
  IF m.type \in {"TRANSACTION_APPROVED", "TRANSACTION_REJECTED"}
    THEN {Response(m.transactionId, TRUE)}
    ELSE {}

\* what the relay posts into its page for a message from the background script
RelayDecisionPost(m) ==
  IF m.type = "TRANSACTION_APPROVED" \/ m.type = "TRANSACTION_REJECTED"
    THEN {Response(m.transactionId, m.type = "TRANSACTION_APPROVED")}
    ELSE {}

\* chrome.runtime.onMessage listener of the relay in tab m.tab
TabMessage(m) ==
  /\ m \in tabMsgs
  /\ tabMsgs' = tabMsgs \ {m}
  /\ IF relayPresent /\ m.tab = pageTab
       THEN pageChan' = pageChan \cup RelayDecisionPost(m)
       ELSE UNCHANGED pageChan
  /\ UNCHANGED << interceptorVars, relayPresent, pageTab, installVars, surfaceVars, historyVars, relaySend >>
  /\ UNCHANGED << storage, submitH, decideH, notified, badgeText, badgeColor, badgeRefresh >>
  /\ UNCHANGED panelVars

\* ---- Approval Coordinator ----------------------------------------------
\* transaction.tabId = tabId; pendingTransactions.push(transaction)
PushPending(txs, id, tabId) ==
  Append(txs, [id |-> id, tabId |-> tabId, status |-> "pending"])

\* onMessage TRANSACTION_PENDING_APPROVAL: handlePendingTransaction issues
\* chrome.storage.local.get
SubmitStart(id) ==
  /\ relaySend[id] = "sent"
  /\ relaySend' = [relaySend EXCEPT ![id] = "delivered"]
  /\ submitH' = [submitH EXCEPT ![id] = [pc |-> "get", val |-> <<>>]]
  /\ UNCHANGED << interceptorVars, pageChan, relayPresent, pageTab, installVars, surfaceVars, historyVars >>
  /\ UNCHANGED << storage, decideH, tabMsgs, notified, badgeText, badgeColor, badgeRefresh >>
  /\ UNCHANGED panelVars

\* storage.get callback of handlePendingTransaction: push, then storage.set
SubmitGet(id) ==
  /\ submitH[id].pc = "get"
  /\ submitH' = [submitH EXCEPT ![id] = [pc |-> "set", val |-> PushPending(storage, id, pageTab)]]
  /\ UNCHANGED << interceptorVars, pageChan, relayPresent, pageTab, installVars, surfaceVars, historyVars, relaySend >>
  /\ UNCHANGED << storage, decideH, tabMsgs, notified, badgeText, badgeColor, badgeRefresh >>
  /\ UNCHANGED panelVars

\* storage.set callback of handlePendingTransaction; lastError is the
\* storage layer's choice. chrome.action.openPopup() makes the popup mount and
\* load, which PanelLoad covers. (pendingTransactionTabs is written here and in
\* the decide handlers but never read, so it is not part of the state.)
SubmitSet(id, lastError) ==
  /\ submitH[id].pc = "set"
  /\ IF lastError
       THEN /\ submitH' = [submitH EXCEPT ![id] = [pc |-> "failed", val |-> <<>>]]
            /\ UNCHANGED << storage, badgeText, badgeColor >>
       ELSE /\ storage' = submitH[id].val
            /\ badgeText' = toString(Len(submitH[id].val))
            /\ badgeColor' = "#f59e0b"
            /\ submitH' = [submitH EXCEPT ![id] = [pc |-> "done", val |-> <<>>]]
  /\ UNCHANGED << interceptorVars, pageChan, relayPresent, pageTab, installVars, surfaceVars, historyVars, relaySend >>
  /\ UNCHANGED << decideH, tabMsgs, notified, badgeRefresh >>
  /\ UNCHANGED panelVars

\* the message approveTransaction / rejectTransaction sends to the tab
DecisionMessage(approve, transactionId, tabId) ==
  [type |-> IF approve THEN "TRANSACTION_APPROVED" ELSE "TRANSACTION_REJECTED",
   transactionId |-> transactionId, tab |-> tabId]

TabMessages == {DecisionMessage(a, id, t) : a \in BOOLEAN, id \in Ids, t \in Tabs}

\* storage.get callback of approveTransaction / rejectTransaction:
\* findIndex, and either splice and storage.set or reject 'Transaction not found'
DecideGet(k) ==
  /\ decideH[k].pc = "get"
  /\ LET h == decideH[k]
         transactionIndex == FindIndex(storage, h.id) IN
       IF transactionIndex # 0
         THEN /\ decideH' = [decideH EXCEPT ![k] = [h EXCEPT !.pc = "set",
                                                  !.val = Splice(storage, transactionIndex)]]
              /\ UNCHANGED panelResp
         ELSE /\ decideH' = [decideH EXCEPT ![k] = NoHandler]
              /\ panelResp' = [panelResp EXCEPT ![k] = "Transaction not found"]
  /\ UNCHANGED << interceptorVars, pageChan, relayPresent, pageTab, installVars, surfaceVars, historyVars, relaySend >>
  /\ UNCHANGED << storage, submitH, tabMsgs, notified, badgeText, badgeColor, badgeRefresh >>
  /\ UNCHANGED panelSnap

\* a storage.set callback that sends the decision before it looks at
\* chrome.runtime.lastError
DecideSetSendsFirst(k, lastError) ==
  /\ decideH[k].pc = "set"
  /\ LET h == decideH[k] IN
       /\ IF h.tabId # 0
            THEN /\ tabMsgs' = tabMsgs \cup {DecisionMessage(h.approve, h.id, h.tabId)}
                 /\ notified' = [notified EXCEPT ![h.id] = @ + 1]
            ELSE UNCHANGED << tabMsgs, notified >>
       /\ IF lastError
            THEN /\ panelResp' = [panelResp EXCEPT ![k] = "lastError"]
                 /\ UNCHANGED << storage, badgeRefresh, panelSnap >>
            ELSE /\ storage' = h.val
                 /\ badgeRefresh' = badgeRefresh + 1
                 /\ panelResp' = [panelResp EXCEPT ![k] = "success"]
                 /\ panelSnap' = Reverse(h.val)
  /\ decideH' = [decideH EXCEPT ![k] = NoHandler]
  /\ UNCHANGED << interceptorVars, pageChan, relayPresent, pageTab, installVars, surfaceVars, historyVars, relaySend >>
  /\ UNCHANGED << submitH, badgeText, badgeColor >>

\* storage.set callback of approveTransaction / rejectTransaction; on
\* success the popup's response callback reloads its lists from the store
DecideSet(k, lastError) ==
  /\ decideH[k].pc = "set"
  /\ LET h == decideH[k] IN
       IF lastError
         THEN /\ panelResp' = [panelResp EXCEPT ![k] = "lastError"]
              /\ UNCHANGED << storage, tabMsgs, notified, badgeRefresh, panelSnap >>
         ELSE /\ storage' = h.val
              /\ IF h.tabId # 0
                   THEN /\ tabMsgs' = tabMsgs \cup {DecisionMessage(h.approve, h.id, h.tabId)}
                        /\ notified' = [notified EXCEPT ![h.id] = @ + 1]
                   ELSE UNCHANGED << tabMsgs, notified >>
              /\ badgeRefresh' = badgeRefresh + 1
              /\ panelResp' = [panelResp EXCEPT ![k] = "success"]
              /\ panelSnap' = Reverse(h.val)
  /\ decideH' = [decideH EXCEPT ![k] = NoHandler]
  /\ UNCHANGED << interceptorVars, pageChan, relayPresent, pageTab, installVars, surfaceVars, historyVars, relaySend >>
  /\ UNCHANGED << submitH, badgeText, badgeColor >>

\* updateBadgeCount that sets the text only for a nonzero count
UpdateBadgeKeepsText ==
  /\ badgeRefresh > 0
  /\ badgeRefresh' = badgeRefresh - 1
  /\ LET pendingCount == Len(storage) IN
       IF pendingCount > 0
         THEN /\ badgeText' = toString(pendingCount)
              /\ badgeColor' = "#f59e0b"
         ELSE UNCHANGED << badgeText, badgeColor >>
  /\ UNCHANGED << interceptorVars, pageChan, relayPresent, pageTab, installVars, surfaceVars, historyVars, relaySend >>
  /\ UNCHANGED << storage, submitH, decideH, tabMsgs, notified >>
  /\ UNCHANGED panelVars

\* storage.get callback of updateBadgeCount
UpdateBadge ==
  /\ badgeRefresh > 0
  /\ badgeRefresh' = badgeRefresh - 1
  /\ LET pendingCount == Len(storage) IN
       IF pendingCount > 0
         THEN /\ badgeText' = toString(pendingCount)
              /\ badgeColor' = "#f59e0b"
         ELSE /\ badgeText' = <<>>
              /\ UNCHANGED badgeColor
  /\ UNCHANGED << interceptorVars, pageChan, relayPresent, pageTab, installVars, surfaceVars, historyVars, relaySend >>
  /\ UNCHANGED << storage, submitH, decideH, tabMsgs, notified >>
  /\ UNCHANGED panelVars

\* ---- Review Surface ----------------------------------------------------
\* loadTransactions: chrome.storage.local.get callback (mount, 2 s auto-refresh,
\* Refresh button)
PanelLoad ==
  /\ panelSnap # Reverse(storage)
  /\ panelSnap' = Reverse(storage)
  /\ UNCHANGED << interceptorVars, pageChan, relayPresent, pageTab, installVars, surfaceVars, historyVars, relaySend >>
  /\ UNCHANGED << coordVars, panelResp >>

\* the request slot the next decide message of the popup occupies
FreeSlots == {k \in 1..workload.decides : decideH[k].pc = "none"}
FreeSlot == CHOOSE k \in FreeSlots : \A j \in FreeSlots : k <= j

\* buttons that are rendered only once the analysis of the entry completed
ControlsShownAfterAnalysis(tx, aiSummary) ==
  tx.status = "pending" /\ aiSummary = "done"

\* {activeTab === 'pending' && tx.status === 'pending' && (...buttons...)}:
\* whether the Approve and Reject buttons of an entry of the pending list are
\* rendered; aiSummary is aiSummaries[tx.id]
ControlsShown(tx, aiSummary) ==
  tx.status = "pending"

\* Approve / Reject button of entry i of the popup's pending list:
\* APPROVE_TRANSACTION / REJECT_TRANSACTION reaches the background script,
\* whose handler issues chrome.storage.local.get
PanelDecide(i, approve) ==
  /\ FreeSlots # {}
  /\ i \in 1..Len(panelSnap)
  /\ LET tx == panelSnap[i] IN
       /\ ControlsShown(tx, aiSummaries[tx.id])
       /\ decideH' = [decideH EXCEPT ![FreeSlot] = [pc |-> "get", id |-> tx.id, approve |-> approve,
                                                   tabId |-> tx.tabId, val |-> <<>>]]
       /\ panelResp' = [panelResp EXCEPT ![FreeSlot] = "none"]
  /\ UNCHANGED << interceptorVars, pageChan, relayPresent, pageTab, installVars, surfaceVars, historyVars, relaySend >>
  /\ UNCHANGED << storage, submitH, tabMsgs, notified, badgeText, badgeColor, badgeRefresh >>
  /\ UNCHANGED panelSnap

\* fetchAIAnalysisForTransaction(tx) for entry i of the pending list, called
\* by the load for every pending eth_sendTransaction without a summary and by
\* the Analyze Transaction button: returns if the fetch is already running
FetchAIAnalysisForTransaction(i) ==
  /\ i \in 1..Len(panelSnap)
  /\ LET tx == panelSnap[i] IN
       /\ tx.id # 0 /\ tx.status # "none"
       /\ aiSummaries[tx.id] # "loading"
       /\ aiSummaries' = [aiSummaries EXCEPT ![tx.id] = "loading"]
  /\ UNCHANGED << interceptorVars, pageChan, relayPresent, pageTab, relaySend, installVars >>
  /\ UNCHANGED << coordVars, panelVars, historyVars, panelReq, cleared >>

\* await fetchAIAnalysis(...) of call id returns (ok) or throws
AnalysisSettled(id, ok) ==
  /\ aiSummaries[id] = "loading"
  /\ aiSummaries' = [aiSummaries EXCEPT ![id] = IF ok THEN "done" ELSE "error"]
  /\ UNCHANGED << interceptorVars, pageChan, relayPresent, pageTab, relaySend, installVars >>
  /\ UNCHANGED << coordVars, panelVars, historyVars, panelReq, cleared >>

\* loadTransactions whose chrome.storage.local.get reports an error:
\* loadViaMessage sends GET_TRANSACTIONS and GET_PENDING_TRANSACTIONS
PanelLoadViaMessage ==
  /\ panelReq["GET_TRANSACTIONS"].pc = "none"
  /\ panelReq["GET_PENDING_TRANSACTIONS"].pc = "none"
  /\ panelReq' = [panelReq EXCEPT !["GET_TRANSACTIONS"].pc = "sent",
                                  !["GET_PENDING_TRANSACTIONS"].pc = "sent"]
  /\ UNCHANGED << interceptorVars, pageChan, relayPresent, pageTab, relaySend, installVars >>
  /\ UNCHANGED << coordVars, panelVars, historyVars, aiSummaries, cleared >>

\* the Test button: chrome.runtime.sendMessage TRANSACTION_INTERCEPTED
PanelTest ==
  /\ panelReq["TRANSACTION_INTERCEPTED"].pc = "none"
  /\ panelReq' = [panelReq EXCEPT !["TRANSACTION_INTERCEPTED"].pc = "sent"]
  /\ UNCHANGED << interceptorVars, pageChan, relayPresent, pageTab, relaySend, installVars >>
  /\ UNCHANGED << coordVars, panelVars, historyVars, aiSummaries, cleared >>

\* the Clear Pending button: callback of the popup's own
\* chrome.storage.local.remove(['pending_transactions']); on success the list
\* is emptied and UPDATE_BADGE is sent
PanelClear(lastError) ==
  /\ panelReq["UPDATE_BADGE"].pc = "none"
  /\ IF lastError
       THEN UNCHANGED << storage, panelSnap, panelReq, cleared >>
       ELSE /\ storage' = <<>>
            /\ cleared' = cleared \cup PendingIds(storage)
            /\ panelSnap' = <<>>
            /\ panelReq' = [panelReq EXCEPT !["UPDATE_BADGE"].pc = "sent"]
  /\ UNCHANGED << interceptorVars, pageChan, relayPresent, pageTab, relaySend, installVars >>
  /\ UNCHANGED << submitH, decideH, tabMsgs, notified, badgeText, badgeColor, badgeRefresh >>
  /\ UNCHANGED << panelResp, historyVars, aiSummaries >>

\* CLEAR_PENDING_TRANSACTIONS at the background script: callback of
\* chrome.storage.local.remove(['pending_transactions']) in
\* clearPendingTransactions; on success updateBadgeCount() is called
ClearPendingTransactions(lastError) ==
  /\ badgeRefresh < MaxRefreshes
  /\ IF lastError
       THEN UNCHANGED << storage, cleared, badgeRefresh >>
       ELSE /\ storage' = <<>>
            /\ cleared' = cleared \cup PendingIds(storage)
            /\ badgeRefresh' = badgeRefresh + 1
  /\ UNCHANGED << interceptorVars, pageChan, relayPresent, pageTab, relaySend, installVars >>
  /\ UNCHANGED << submitH, decideH, tabMsgs, notified, badgeText, badgeColor >>
  /\ UNCHANGED << panelVars, historyVars, panelReq, aiSummaries >>

\* a getPendingTransactions that answers with the list known at startup
GetPendingTransactionsAtStartup(lastError, stored) == <<>>

\* getPendingTransactions: what the storage.get callback resolves with
GetPendingTransactions(lastError, stored) ==
  IF lastError THEN <<>> ELSE stored

\* chrome.runtime.onMessage listener of the background script for a request
\* of the popup: GET_PENDING_TRANSACTIONS issues chrome.storage.local.get;
\* UPDATE_BADGE calls updateBadgeCount() and responds (the popup passed no
\* callback); a type without a case only logs, the listener returns without
\* sendResponse and the port closes
OnMessage(t) ==
  /\ t \in PanelRequests
  /\ panelReq[t].pc = "sent"
  /\ IF t = "GET_PENDING_TRANSACTIONS"
       THEN /\ panelReq' = [panelReq EXCEPT ![t].pc = "get"]
            /\ UNCHANGED badgeRefresh
       ELSE IF t = "UPDATE_BADGE"
         THEN /\ badgeRefresh < MaxRefreshes
              /\ badgeRefresh' = badgeRefresh + 1
              /\ panelReq' = [panelReq EXCEPT ![t].pc = "none"]
         ELSE /\ panelReq' = [panelReq EXCEPT ![t].pc = "closed"]
              /\ UNCHANGED badgeRefresh
  /\ UNCHANGED << interceptorVars, pageChan, relayPresent, pageTab, relaySend, installVars >>
  /\ UNCHANGED << storage, submitH, decideH, tabMsgs, notified, badgeText, badgeColor >>
  /\ UNCHANGED << panelVars, historyVars, aiSummaries, cleared >>

\* storage.get callback of getPendingTransactions, then
\* sendResponse({ transactions })
ListPendingGet(lastError) ==
  /\ panelReq["GET_PENDING_TRANSACTIONS"].pc = "get"
  /\ panelReq' = [panelReq EXCEPT !["GET_PENDING_TRANSACTIONS"] =
                    [pc |-> "responded", lastError |-> lastError,
                     transactions |-> GetPendingTransactions(lastError, storage)]]
  /\ UNCHANGED << interceptorVars, pageChan, relayPresent, pageTab, relaySend, installVars >>
  /\ UNCHANGED << coordVars, panelVars, historyVars, aiSummaries, cleared >>

\* the popup's sendMessage callback: with the response of
\* GET_PENDING_TRANSACTIONS it shows response.transactions.reverse(); for a
\* port that closed without a response chrome.runtime.lastError is set and the
\* callback logs (the Test button then reloads, which PanelLoad covers)
PanelCallback(t) ==
  /\ t \in PanelRequests
  /\ panelReq[t].pc \in {"responded", "closed"}
  /\ panelReq' = [panelReq EXCEPT ![t] = NoRequest]
  /\ IF t = "GET_PENDING_TRANSACTIONS"
       THEN panelSnap' = IF panelReq[t].pc = "responded"
                           THEN Reverse(panelReq[t].transactions) ELSE <<>>
       ELSE UNCHANGED panelSnap
  /\ UNCHANGED << interceptorVars, pageChan, relayPresent, pageTab, relaySend, installVars >>
  /\ UNCHANGED << coordVars, panelResp, historyVars, aiSummaries, cleared >>

\* ---- installation of the interceptor -----------------------------------
\* a page before the content script runs, with or without a provider in place
InstallInit ==
  /\ workload = [calls |-> 0, decides |-> 0, methods |-> {}, passes |-> 0, reposts |-> 0]
  /\ relayPresent = TRUE
  /\ pageTab = 1
  /\ ProtocolInit
  /\ installed = FALSE
  /\ ethereum \in Providers \cup {0}
  /\ hasRequest \in [Providers -> BOOLEAN]
  /\ layers = NothingWrapped.layers
  /\ wrappedProviders = NothingWrapped.wrapped
  /\ wrapTasks = {}
  /\ lastEthereum = 0
  /\ polling = FALSE
  /\ docEvents = {"DOMContentLoaded", "load"}
  /\ lastCall = NoCall

Wrapping == [wrapped |-> wrappedProviders, layers |-> layers]

\* the body of the content script, run at document_start: the initial check,
\* the property accessors, the poller and the event listeners
Install ==
  /\ ~installed
  /\ installed' = TRUE
  /\ LET w == CheckAndWrapEthereum(Wrapping, hasRequest, ethereum) IN
       /\ wrappedProviders' = w.wrapped
       /\ layers' = w.layers
  /\ lastEthereum' = ethereum
  /\ polling' = TRUE
  /\ UNCHANGED << ethereum, hasRequest, wrapTasks, docEvents, lastCall >>
  /\ UNCHANGED protocolVars

\* the page assigns window.ethereum = p: the accessor's set(newValue)
AssignEthereum(p) ==
  /\ installed
  /\ ethereum' = p
  /\ wrapTasks' = IF p # 0 THEN wrapTasks \cup {p} ELSE wrapTasks
  /\ UNCHANGED << installed, hasRequest, layers, wrappedProviders, lastEthereum,
                  polling, docEvents, lastCall >>
  /\ UNCHANGED protocolVars

\* setTimeout(() => wrapRequestMethod(newValue), 0) runs
WrapTask(p) ==
  /\ p \in wrapTasks
  /\ wrapTasks' = wrapTasks \ {p}
  /\ LET w == WrapRequestMethod(Wrapping, hasRequest, p) IN
       /\ wrappedProviders' = w.wrapped
       /\ layers' = w.layers
  /\ UNCHANGED << installed, ethereum, hasRequest, lastEthereum, polling, docEvents, lastCall >>
  /\ UNCHANGED protocolVars

\* one tick of setInterval(..., 500)
Poll ==
  /\ polling
  /\ IF ethereum # lastEthereum
       THEN /\ lastEthereum' = ethereum
            /\ LET w == IF ethereum # 0
                           THEN WrapRequestMethod(Wrapping, hasRequest, ethereum)
                           ELSE Wrapping IN
                 /\ wrappedProviders' = w.wrapped
                 /\ layers' = w.layers
       ELSE UNCHANGED << lastEthereum, wrappedProviders, layers >>
  /\ UNCHANGED << installed, ethereum, hasRequest, wrapTasks, polling, docEvents, lastCall >>
  /\ UNCHANGED protocolVars

\* clearInterval(pollInterval) after 30 seconds
StopPolling ==
  /\ polling
  /\ polling' = FALSE
  /\ UNCHANGED << installed, ethereum, hasRequest, layers, wrappedProviders, wrapTasks,
                  lastEthereum, docEvents, lastCall >>
  /\ UNCHANGED protocolVars

\* the DOMContentLoaded and load listeners; load comes after DOMContentLoaded
DocEvent(e) ==
  /\ installed
  /\ e \in docEvents
  /\ e = "load" => "DOMContentLoaded" \notin docEvents
  /\ docEvents' = docEvents \ {e}
  /\ LET w == CheckAndWrapEthereum(Wrapping, hasRequest, ethereum) IN
       /\ wrappedProviders' = w.wrapped
       /\ layers' = w.layers
  /\ UNCHANGED << installed, ethereum, hasRequest, wrapTasks, lastEthereum, polling, lastCall >>
  /\ UNCHANGED protocolVars

\* the 'ethereum#initialized' listener; a wallet may dispatch it at any time
EthereumInitialized ==
  /\ installed
  /\ LET w == CheckAndWrapEthereum(Wrapping, hasRequest, ethereum) IN
       /\ wrappedProviders' = w.wrapped
       /\ layers' = w.layers
  /\ UNCHANGED << installed, ethereum, hasRequest, wrapTasks, lastEthereum, polling,
                  docEvents, lastCall >>
  /\ UNCHANGED protocolVars

\* the page calls p.request with a reviewable method and every review
\* approves: each wrapper around the wallet's request posts one
\* PLASMO_ETHEREUM_INTERCEPTED and then calls the request it was bound to
ProviderCall(p) ==
  /\ installed
  /\ hasRequest[p]
  /\ lastCall' = [provider |-> p, messages |-> layers[p]]
  /\ UNCHANGED << installed, ethereum, hasRequest, layers, wrappedProviders, wrapTasks,
                  lastEthereum, polling, docEvents >>
  /\ UNCHANGED protocolVars

InstallNext ==
  \/ Install
  \/ \E p \in Providers \cup {0} : AssignEthereum(p)
  \/ \E p \in Providers : WrapTask(p)
  \/ Poll
  \/ StopPolling
  \/ \E e \in {"DOMContentLoaded", "load"} : DocEvent(e)
  \/ EthereumInitialized
  \/ \E p \in Providers : ProviderCall(p)

InstallSpec == InstallInit /\ [][InstallNext]_vars

\* the wallet gives provider p its request method after the provider object
\* was created (provider.request = ...)
GainRequest(p) ==
  /\ ~hasRequest[p]
  /\ hasRequest' = [hasRequest EXCEPT ![p] = TRUE]
  /\ UNCHANGED << installed, ethereum, layers, wrappedProviders, wrapTasks,
                  lastEthereum, polling, docEvents, lastCall >>
  /\ UNCHANGED protocolVars

\* installation on a page whose wallet completes its providers late
LateRequestNext ==
  \/ InstallNext
  \/ \E p \in Providers : GainRequest(p)

LateRequestSpec == InstallInit /\ [][LateRequestNext]_vars

\* ---- history-retaining Approval Coordinator -----------------------------
\* message.data of TRANSACTION_INTERCEPTED: the popup's testTransaction, which
\* has no id, no tabId and no status (0 and "none" stand for undefined)
RecordedData == [id |-> 0, tabId |-> 0, status |-> "none"]

\* if (transactions.length > n) transactions.splice(0, transactions.length - n)
KeepLast(txs, n) ==
  IF Len(txs) > n THEN SubSeq(txs, Len(txs) - n + 1, Len(txs)) ELSE txs

\* the page of a history-retaining coordinator, before any call
HistoryInit ==
  /\ workload = [calls |-> 1, decides |-> 1, methods |-> {"eth_sendTransaction"},
                 passes |-> 0, reposts |-> 0]
  /\ relayPresent = TRUE
  /\ pageTab = 1
  /\ ProtocolInit
  /\ installed = TRUE
  /\ ethereum = 1
  /\ hasRequest = AllHaveRequest
  /\ layers = CheckAndWrapEthereum(NothingWrapped, AllHaveRequest, 1).layers
  /\ wrappedProviders = CheckAndWrapEthereum(NothingWrapped, AllHaveRequest, 1).wrapped
  /\ wrapTasks = {}
  /\ lastEthereum = 1
  /\ polling = TRUE
  /\ docEvents = {"DOMContentLoaded", "load"}
  /\ lastCall = NoCall

\* TRANSACTION_INTERCEPTED reaches the background script (the popup's Test
\* button, or the relay for a message without requiresApproval):
\* handleTransactionIntercepted issues chrome.storage.local.get
RecordStart ==
  /\ recordH.pc = "none"
  /\ Len(history) < MaxRecords
  /\ recordH' = [pc |-> "get", data |-> RecordedData, val |-> <<>>]
  /\ UNCHANGED << interceptorVars, pageChan, relayPresent, pageTab, relaySend, installVars, surfaceVars >>
  /\ UNCHANGED << coordVars, panelVars, history >>

\* storage.get callback of handleTransactionIntercepted: push, trim, storage.set
RecordGet ==
  /\ recordH.pc = "get"
  /\ recordH' = [recordH EXCEPT !.pc = "set",
                                !.val = KeepLast(Append(history, recordH.data), HistoryCap)]
  /\ UNCHANGED << interceptorVars, pageChan, relayPresent, pageTab, relaySend, installVars, surfaceVars >>
  /\ UNCHANGED << coordVars, panelVars, history >>

\* storage.set callback of handleTransactionIntercepted
RecordSet(lastError) ==
  /\ recordH.pc = "set"
  /\ IF lastError
       THEN UNCHANGED << history, badgeText, badgeColor >>
       ELSE /\ history' = recordH.val
            /\ badgeText' = toString(Len(recordH.val))
            /\ badgeColor' = "#ef4444"
  /\ recordH' = NoRecord
  /\ UNCHANGED << interceptorVars, pageChan, relayPresent, pageTab, relaySend, installVars, surfaceVars >>
  /\ UNCHANGED << storage, submitH, decideH, tabMsgs, notified, badgeRefresh >>
  /\ UNCHANGED panelVars

\* the entry moved to the history: transaction.status = 'approved' / 'rejected'
Decided(tx, approve) == [tx EXCEPT !.status = IF approve THEN "approved" ELSE "rejected"]

\* storage.get callback of approveTransaction / rejectTransaction, which read
\* both keys: findIndex, set status, splice, allTransactions.push, storage.set
HistoryDecideGet(k) ==
  /\ decideH[k].pc = "get"
  /\ LET h == decideH[k]
         transactionIndex == FindIndex(storage, h.id) IN
       IF transactionIndex # 0
         THEN /\ decideH' = [decideH EXCEPT ![k] = [h EXCEPT !.pc = "set",
                    !.val = [pending |-> Splice(storage, transactionIndex),
                             all |-> Append(history, Decided(storage[transactionIndex], h.approve))]]]
              /\ UNCHANGED panelResp
         ELSE /\ decideH' = [decideH EXCEPT ![k] = NoHandler]
              /\ panelResp' = [panelResp EXCEPT ![k] = "Transaction not found"]
  /\ UNCHANGED << interceptorVars, pageChan, relayPresent, pageTab, relaySend, installVars, surfaceVars >>
  /\ UNCHANGED << storage, submitH, tabMsgs, notified, badgeText, badgeColor, badgeRefresh >>
  /\ UNCHANGED << panelSnap, historyVars >>

\* storage.set callback of approveTransaction / rejectTransaction: both keys
\* are written at once
HistoryDecideSet(k, lastError) ==
  /\ decideH[k].pc = "set"
  /\ LET h == decideH[k] IN
       IF lastError
         THEN /\ panelResp' = [panelResp EXCEPT ![k] = "lastError"]
              /\ UNCHANGED << storage, history, tabMsgs, notified, badgeRefresh, panelSnap >>
         ELSE /\ storage' = h.val.pending
              /\ history' = h.val.all
              /\ IF h.tabId # 0
                   THEN /\ tabMsgs' = tabMsgs \cup {DecisionMessage(h.approve, h.id, h.tabId)}
                        /\ notified' = [notified EXCEPT ![h.id] = @ + 1]
                   ELSE UNCHANGED << tabMsgs, notified >>
              /\ badgeRefresh' = badgeRefresh + 1
              /\ panelResp' = [panelResp EXCEPT ![k] = "success"]
              /\ panelSnap' = Reverse(h.val.pending)
  /\ decideH' = [decideH EXCEPT ![k] = NoHandler]
  /\ UNCHANGED << interceptorVars, pageChan, relayPresent, pageTab, relaySend, installVars, surfaceVars >>
  /\ UNCHANGED << submitH, badgeText, badgeColor, recordH >>

\* storage.get callback of updateBadgeCount, which reads both keys
HistoryUpdateBadge ==
  /\ badgeRefresh > 0
  /\ badgeRefresh' = badgeRefresh - 1
  /\ LET pendingCount == Len(storage)
         totalCount == Len(history) IN
       IF pendingCount > 0
         THEN /\ badgeText' = toString(pendingCount)
              /\ badgeColor' = "#f59e0b"
         ELSE IF totalCount > 0
                THEN /\ badgeText' = toString(totalCount)
                     /\ badgeColor' = "#ef4444"
                ELSE /\ badgeText' = <<>>
                     /\ UNCHANGED badgeColor
  /\ UNCHANGED << interceptorVars, pageChan, relayPresent, pageTab, relaySend, installVars, surfaceVars >>
  /\ UNCHANGED << storage, submitH, decideH, tabMsgs, notified >>
  /\ UNCHANGED << panelVars, historyVars >>

HistoryNext ==
  \/ \E m \in Methods : Request(m)
  \/ \E m \in PageMessages : PageMessage(m)
  \/ \E id \in Ids : SubmitStart(id)
  \/ \E id \in Ids : SubmitGet(id)
  \/ \E id \in Ids, lastError \in BOOLEAN : SubmitSet(id, lastError)
  \/ RecordStart
  \/ RecordGet
  \/ \E lastError \in BOOLEAN : RecordSet(lastError)
  \/ \E k \in Slots : HistoryDecideGet(k)
  \/ \E k \in Slots, lastError \in BOOLEAN : HistoryDecideSet(k, lastError)
  \/ HistoryUpdateBadge
  \/ PanelLoad
  \/ \E i \in 1..MaxCalls, approve \in BOOLEAN : PanelDecide(i, approve)

HistorySpec == HistoryInit /\ [][HistoryNext]_vars

\* ---- specification -----------------------------------------------------
Next ==
  \/ \E m \in Methods : Request(m)
  \/ \E id \in Ids : Timeout(id)
  \/ \E id \in Ids : PageRepost(id)
  \/ \E m \in ForeignMessages : ForeignPost(m)
  \/ \E m \in PageMessages : PageMessage(m)
  \/ \E id \in Ids : RelayForwardFail(id)
  \/ \E m \in TabMessages : TabMessage(m)
  \/ \E id \in Ids : SubmitStart(id)
  \/ \E id \in Ids : SubmitGet(id)
  \/ \E id \in Ids, lastError \in BOOLEAN : SubmitSet(id, lastError)
  \/ \E k \in Slots : DecideGet(k)
  \/ \E k \in Slots, lastError \in BOOLEAN : DecideSet(k, lastError)
  \/ UpdateBadge
  \/ PanelLoad
  \/ \E i \in 1..MaxCalls, approve \in BOOLEAN : PanelDecide(i, approve)

Spec == Init /\ [][Next]_vars

\* timers set with setTimeout do fire
FairSpec == Spec /\ \A id \in Ids : WF_vars(Timeout(id))

\* the popup open on the page of the coordinator without history, before any
\* call
SurfaceInit ==
  /\ workload = [calls |-> 1, decides |-> 1, methods |-> {"eth_sendTransaction"},
                 passes |-> 0, reposts |-> 0]
  /\ relayPresent = TRUE
  /\ pageTab = 1
  /\ ProtocolInit
  /\ installed = TRUE
  /\ ethereum = 1
  /\ hasRequest = AllHaveRequest
  /\ layers = CheckAndWrapEthereum(NothingWrapped, AllHaveRequest, 1).layers
  /\ wrappedProviders = CheckAndWrapEthereum(NothingWrapped, AllHaveRequest, 1).wrapped
  /\ wrapTasks = {}
  /\ lastEthereum = 1
  /\ polling = TRUE
  /\ docEvents = {"DOMContentLoaded", "load"}
  /\ lastCall = NoCall

\* the protocol together with the popup's other operations
SurfaceNext ==
  \/ \E m \in Methods : Request(m)
  \/ \E id \in Ids : Timeout(id)
  \/ \E m \in PageMessages : PageMessage(m)
  \/ \E id \in Ids : RelayForwardFail(id)
  \/ \E m \in TabMessages : TabMessage(m)
  \/ \E id \in Ids : SubmitStart(id)
  \/ \E id \in Ids : SubmitGet(id)
  \/ \E id \in Ids, lastError \in BOOLEAN : SubmitSet(id, lastError)
  \/ \E k \in Slots : DecideGet(k)
  \/ \E k \in Slots, lastError \in BOOLEAN : DecideSet(k, lastError)
  \/ UpdateBadge
  \/ PanelLoad
  \/ \E i \in 1..MaxCalls, approve \in BOOLEAN : PanelDecide(i, approve)
  \/ \E i \in 1..MaxCalls : FetchAIAnalysisForTransaction(i)
  \/ \E id \in Ids, ok \in BOOLEAN : AnalysisSettled(id, ok)
  \/ PanelLoadViaMessage
  \/ PanelTest
  \/ \E lastError \in BOOLEAN : PanelClear(lastError)
  \/ \E t \in PanelRequests : OnMessage(t)
  \/ \E lastError \in BOOLEAN : ListPendingGet(lastError)
  \/ \E t \in PanelRequests : PanelCallback(t)

SurfaceSpec == SurfaceInit /\ [][SurfaceNext]_vars

\* the protocol, under every workload, together with the popup's Clear
\* Pending button and the UPDATE_BADGE request that follows it
\* window.postMessage({type: 'PLASMO_TRANSACTION_RESPONSE', transactionId,
\* approved}, '*') by a script of the page itself: it has read the id in the
\* interceptor's PLASMO_ETHEREUM_INTERCEPTED event, and its message arrives
\* with event.source === window
PageForge(id, approved) ==
  /\ reposted < workload.reposts
  /\ outcome[id] # "none"
  /\ reposted' = reposted + 1
  /\ pageChan' = pageChan \cup {Response(id, approved)}
  /\ UNCHANGED << workload, method, passThrough, forwarded, pageResult, interceptCount,
                  pendingTransactions, timers, outcome, originalCalls, delivered >>
  /\ UNCHANGED << relayPresent, pageTab, installVars, surfaceVars, historyVars, relaySend >>
  /\ UNCHANGED << coordVars, panelVars >>

\* the protocol on a page whose own scripts post decision messages
ForgeNext ==
  \/ Next
  \/ \E id \in Ids, approved \in BOOLEAN : PageForge(id, approved)

ForgeSpec == Init /\ [][ForgeNext]_vars

ClearNext ==
  \/ Next
  \/ \E lastError \in BOOLEAN : PanelClear(lastError)
  \/ OnMessage("UPDATE_BADGE")

ClearSpec == Init /\ [][ClearNext]_vars

\* ---- claims ------------------------------------------------------------
Settled == {"approved", "rejected", "timeout"}

\* C1: the original request entry point is invoked for a reviewable call only
\* after an approved decision for that call's id was received; it has never
\* been invoked for a call that is pending, was rejected or timed out.
C1_OriginalOnlyAfterApproval ==
  \A id \in Ids :
    /\ originalCalls[id] > 0 =>
         /\ [id |-> id, approved |-> TRUE] \in delivered
         /\ outcome[id] = "approved"
    /\ outcome[id] \in {"none", "suspended", "rejected", "timeout"} => originalCalls[id] = 0

C1_Witness ==
  \E id \in Ids : originalCalls[id] = 1 /\ outcome[id] = "approved"

\* C2: every intercepted call ends in exactly one of approved-resume,
\* rejected-fail, timeout-fail: its promise stays registered exactly while the
\* call is suspended, a suspended call is eventually settled, and once settled
\* no later decision message or timer changes its outcome or invokes the
\* original entry point again.
C2_SettledOnce ==
  /\ [](\A id \in Ids : id \in pendingTransactions <=> outcome[id] = "suspended")
  /\ [][\A id \in Ids : outcome[id] \in Settled =>
          /\ outcome'[id] = outcome[id]
          /\ originalCalls'[id] = originalCalls[id]
          /\ id \notin pendingTransactions']_vars
  /\ \A id \in Ids : (outcome[id] = "suspended") ~> (outcome[id] \in Settled)

\* a call timed out and an approval for it was delivered (and ignored) afterwards
C2_Witness ==
  \E id \in Ids : /\ outcome[id] = "timeout"
                  /\ [id |-> id, approved |-> TRUE] \in delivered
                  /\ id \notin timers

\* C3: when the submit handlers of two different calls have both completed
\* (and no decide has removed anything), both calls are in pending_transactions.
C3_BothSubmitsRetained ==
  (\A id \in Ids : notified[id] = 0) =>
     \A id \in Ids : submitH[id].pc = "done" => id \in PendingIds(storage)

\* C4: the Coordinator sends at most one decision message per call id, however
\* two decide requests for the same pending id interleave.
C4_OneDecisionPerId ==
  \A id \in Ids : notified[id] <= 1

\* C5: an id that a successful decide removed from pending_transactions never
\* appears in pending_transactions again (each call being submitted once).
C5_NeverBackInPending ==
  reposted = 0 => \A id \in Ids : notified[id] > 0 => id \notin PendingIds(storage)

\* C6: with the relay absent a reviewable call never hangs to the full
\* timeout (and never resolves as approved).
C6_FailClosedWithoutRelay ==
  ~relayPresent => \A id \in Ids : outcome[id] \notin {"timeout", "approved"}

\* C7: when the relay's forward fails it posts, in the same callback, a
\* PLASMO_TRANSACTION_RESPONSE with approved = false for the call's id, and a
\* call still suspended when that response is dispatched fails as rejected.
C7_ForwardFailureRejects ==
  /\ [][\A id \in Ids :
          (relaySend[id] = "sent" /\ relaySend'[id] = "failed") =>
             Response(id, FALSE) \in pageChan']_vars
  /\ [][\A id \in Ids :
          ( /\ relaySend[id] = "failed"
            /\ Response(id, FALSE) \in pageChan
            /\ Response(id, FALSE) \notin pageChan'
            /\ id \in pendingTransactions ) =>
             (outcome'[id] = "rejected" /\ originalCalls'[id] = 0)]_vars

\* the forward failed and the call was rejected while its timer is still running
C7_Witness ==
  \E id \in Ids : /\ relaySend[id] = "failed"
                  /\ outcome[id] = "rejected"
                  /\ id \in timers

\* C8: a decide for an id that is not in pending_transactions is answered
\* 'Transaction not found', issues no storage write, sends no tab message and
\* leaves the pending collection as it is.
C8_DecideNotFound ==
  [][\A k \in Slots :
       ( /\ decideH[k].pc = "get"
         /\ decideH'[k].pc # "get"
         /\ decideH[k].id \notin PendingIds(storage) ) =>
          /\ panelResp'[k] = "Transaction not found"
          /\ decideH'[k] = NoHandler
          /\ storage' = storage
          /\ tabMsgs' = tabMsgs
          /\ notified' = notified]_vars

\* a decide was answered not found while another call is still pending
C8_Witness ==
  \E k \in Slots : panelResp[k] = "Transaction not found" /\ Len(storage) > 0

\* C9: a successful decide for an id that is in pending_transactions removes
\* exactly that entry (the other entries and their order unchanged) and sends
\* the decision, with the same id, to the call's originating tab (each call
\* being submitted once).
C9_DecideRemovesExactlyThatEntry ==
  [][\A k \in Slots :
       ( /\ reposted = 0
         /\ decideH[k].pc = "set"
         /\ decideH'[k].pc = "none"
         /\ panelResp'[k] = "success"
         /\ decideH[k].id \in PendingIds(storage) ) =>
          /\ storage' = Splice(storage, FindIndex(storage, decideH[k].id))
          /\ DecisionMessage(decideH[k].approve, decideH[k].id, pageTab) \in tabMsgs']_vars

\* C10: after a call had its first outcome at the Interceptor, every decide
\* for its id that the Coordinator processes is reported as not found.
C10_DecideAfterOutcomeNotFound ==
  [][\A k \in Slots :
       ( /\ decideH[k].pc = "get"
         /\ decideH'[k].pc # "get"
         /\ outcome[decideH[k].id] \in Settled ) =>
          /\ panelResp'[k] = "Transaction not found"
          /\ decideH'[k] = NoHandler]_vars

\* no message, callback or handler of the extension is in flight
Quiescent ==
  /\ pageChan = {} /\ tabMsgs = {} /\ timers = {} /\ badgeRefresh = 0
  /\ \A id \in Ids : relaySend[id] # "sent" /\ submitH[id].pc \notin {"get", "set"}
  /\ \A k \in Slots : decideH[k].pc = "none"

\* C11: when the 5-minute timer of a call fires while the call is still
\* suspended, the call fails with the timeout error and its promise is
\* discarded, the original entry point is not invoked, and this happens
\* whether or not the Coordinator lists the call; when the call was already
\* settled the timer changes nothing; every timer set does fire.
C11_TimeoutFailsCall ==
  /\ [][\A id \in Ids : (id \in timers /\ id \notin timers') =>
          IF id \in pendingTransactions
            THEN /\ outcome'[id] = "timeout"
                 /\ id \notin pendingTransactions'
                 /\ originalCalls'[id] = 0
            ELSE /\ outcome'[id] = outcome[id]
                 /\ originalCalls'[id] = originalCalls[id]
                 /\ pendingTransactions' = pendingTransactions]_vars
  /\ \A id \in Ids : (id \in timers) ~> (id \notin timers /\ outcome[id] \in Settled)

\* a call timed out while the Coordinator still lists it as pending
C11_Witness ==
  \E id \in Ids : outcome[id] = "timeout" /\ id \in PendingIds(storage)

\* C12: once a call has timed out and everything in flight has been
\* processed, pending_transactions does not contain the call's id.
C12_TimedOutCallRetired ==
  \A id \in Ids :
    (outcome[id] = "timeout" /\ Quiescent) => id \notin PendingIds(storage)

\* C13: a call that an approved decision resumed has invoked the original
\* entry point exactly once, with the arguments the page passed, and the
\* page's promise settled with what that invocation returned: the wallet's
\* result, or the wallet's failure as it is; an approved decision dispatched
\* while the call is suspended resumes it.
C13_ApprovedRunsOriginal ==
  /\ [](\A id \in Ids : outcome[id] = "approved" =>
          /\ originalCalls[id] = 1
          /\ forwarded[id].args = method[id]
          /\ forwarded[id].returns \in ProviderReturns
          /\ pageResult[id] = forwarded[id].returns)
  /\ [][\A id \in Ids :
          ( /\ Response(id, TRUE) \in pageChan
            /\ Response(id, TRUE) \notin pageChan'
            /\ id \in pendingTransactions ) =>
             (outcome'[id] = "approved" /\ originalCalls'[id] = 1)]_vars

\* an approved call whose wallet invocation failed
C13_Witness ==
  \E id \in Ids : /\ outcome[id] = "approved"
                  /\ forwarded[id].returns = "wallet error"
                  /\ pageResult[id] = "wallet error"

\* C14: a call that a rejected decision ended never invoked the original
\* entry point and its promise rejected with 'Transaction rejected by user',
\* which is not the error of a timeout; a rejected decision dispatched while
\* the call is suspended ends it so.
C14_RejectedNeverInvokes ==
  /\ [](\A id \in Ids : outcome[id] = "rejected" =>
          /\ originalCalls[id] = 0
          /\ forwarded[id] = NotForwarded
          /\ pageResult[id] = "Transaction rejected by user"
          /\ pageResult[id] # TimeoutSettle.value)
  /\ [](\A id \in Ids : outcome[id] = "timeout" => pageResult[id] = "Transaction approval timeout")
  /\ [][\A id \in Ids :
          ( /\ Response(id, FALSE) \in pageChan
            /\ Response(id, FALSE) \notin pageChan'
            /\ id \in pendingTransactions ) =>
             /\ outcome'[id] = "rejected"
             /\ originalCalls'[id] = 0
             /\ pageResult'[id] = "Transaction rejected by user"]_vars

\* the user's reject reached the page and ended the call
C14_Witness ==
  \E id \in Ids : /\ outcome[id] = "rejected"
                  /\ notified[id] = 1
                  /\ [id |-> id, approved |-> FALSE] \in delivered

\* C15: a call of a method outside the reviewable set is forwarded at once to
\* the original entry point with the page's arguments and returns what it
\* returned; the step generates no id, registers no promise, sets no timer,
\* posts no message and suspends nothing.
C15_PassThroughPurity ==
  /\ [](\A i \in 1..Len(passThrough) :
          /\ passThrough[i].forwarded = passThrough[i].args
          /\ passThrough[i].returns \in ProviderReturns
          /\ passThrough[i].result = passThrough[i].returns)
  /\ [][passThrough' # passThrough =>
          /\ Len(passThrough') = Len(passThrough) + 1
          /\ interceptCount' = interceptCount
          /\ pendingTransactions' = pendingTransactions
          /\ timers' = timers
          /\ pageChan' = pageChan
          /\ outcome' = outcome
          /\ method' = method]_vars

\* a pass-through call made while a reviewable call is suspended
C15_Witness ==
  /\ Len(passThrough) > 0
  /\ \E id \in Ids : outcome[id] = "suspended"

\* the method names the specification enumerates as reviewable
EnumeratedReviewable ==
  { "eth_sendTransaction", "eth_signTransaction", "eth_sendRawTransaction",
    "eth_sign", "personal_sign", "eth_signTypedData", "eth_signTypedData_v1",
    "eth_signTypedData_v3", "eth_signTypedData_v4",
    "wallet_addEthereumChain", "wallet_switchEthereumChain" }

C17_OneWrappingLayer ==
  /\ \A p \in Providers :
        /\ layers[p] <= 1
        /\ (p \in wrappedProviders /\ hasRequest[p]) => layers[p] = 1
  /\ lastCall.messages <= 1

\* a provider bound after installation, reached by the accessor's timer, the
\* poller and both document events, was called and posted one message
C17_Witness ==
  \E p \in Providers :
    /\ lastCall = [provider |-> p, messages |-> 1]
    /\ ethereum = p /\ lastEthereum = p
    /\ wrapTasks = {} /\ docEvents = {}

\* C18: once the timers, the poller and the document events that follow a
\* binding of window.ethereum have run, the bound provider and every provider
\* in its providers list have their request wrapped.
C18_BoundProviderWrapped ==
  ( /\ installed /\ ethereum # 0 /\ hasRequest[ethereum]
    /\ wrapTasks = {} /\ docEvents = {}
    /\ polling => lastEthereum = ethereum ) =>
     \A p \in {ethereum} \cup {providersOf[ethereum][i] : i \in 1..Len(providersOf[ethereum])} :
        hasRequest[p] => layers[p] >= 1

\* C19: pending_transactions never holds two entries with the same id, also
\* when the submission of an id that is already pending is received again.
C19_NoDuplicatePendingIds ==
  \A i, j \in 1..Len(storage) : i # j => storage[i].id # storage[j].id

\* C20: under the history-retaining coordinator, whatever sequence of
\* recordings, approvals and rejections has run, intercepted_transactions
\* holds at most 100 entries.
C20_HistoryAtMostCap ==
  Len(history) <= HistoryCap

\* C21: under the history-retaining coordinator, every step that changes the
\* badge leaves it showing the pending count in the pending colour when
\* pending_transactions is not empty, whatever the size of the history; it
\* shows the history count only when pending is empty, and it is empty only
\* when both collections are empty.
C21_PendingHasPriority ==
  [][ (badgeText' # badgeText \/ badgeColor' # badgeColor) =>
        /\ Len(storage') > 0 =>
             badgeText' = toString(Len(storage')) /\ badgeColor' = "#f59e0b"
        /\ (Len(storage') = 0 /\ Len(history') > 0) =>
             badgeText' = toString(Len(history'))
        /\ badgeText' = <<>> => (Len(storage') = 0 /\ Len(history') = 0) ]_vars

\* no storage operation of the coordinator and no badge refresh (requested
\* with UPDATE_BADGE, or being read by updateBadgeCount) is in flight
CoordinatorIdle ==
  /\ badgeRefresh = 0
  /\ panelReq["UPDATE_BADGE"].pc = "none"
  /\ \A id \in Ids : submitH[id].pc \notin {"get", "set"}
  /\ \A k \in Slots : decideH[k].pc = "none"

\* C22: under the coordinator without history, whenever no storage operation
\* of the coordinator and no badge refresh is in flight, the badge text is the
\* decimal count of pending_transactions when that count is not zero and is
\* empty when it is.
C22_BadgeShowsPendingCount ==
  CoordinatorIdle =>
    badgeText = IF Len(storage) > 0 THEN toString(Len(storage)) ELSE <<>>

\* a single call was submitted and decided, the refresh that follows the
\* decision ran, and the badge, which showed 1, is empty again
C22_Witness ==
  /\ CoordinatorIdle
  /\ interceptCount = 1 /\ submitH[1].pc = "done" /\ notified[1] = 1
  /\ badgeColor = "#f59e0b"
  /\ Len(storage) = 0 /\ badgeText = <<>>

\* C24: the popup sends at most one decide request (APPROVE_TRANSACTION or
\* REJECT_TRANSACTION) per call id, so no two requests for the same id are
\* outstanding; and every request it sends is for an entry whose status is
\* pending in the popup's current list.
C24_OneDecideRequestPerId ==
  /\ \A k, j \in Slots :
       (k # j /\ decideH[k].pc # "none" /\ decideH[j].pc # "none") =>
          decideH[k].id # decideH[j].id
  /\ \A i \in 1..Len(panelSnap) : panelSnap[i].status = "pending"

\* C26: a PLASMO_TRANSACTION_RESPONSE for a call id is posted into the page,
\* and is delivered to the interceptor's listener, only after the interceptor
\* published the PLASMO_ETHEREUM_INTERCEPTED message of that id; decisions of
\* different ids may arrive in any order.
C26_DecisionAfterPublication ==
  /\ \A m \in pageChan :
       (m.source = "window" /\ m.type = "PLASMO_TRANSACTION_RESPONSE") => m.id <= interceptCount
  /\ \A d \in delivered : d.id <= interceptCount /\ outcome[d.id] # "none"

\* the decision of the second call was delivered while the first call, which
\* was published earlier, is still suspended without a decision
C26_Witness ==
  /\ interceptCount = 2
  /\ outcome[1] = "suspended"
  /\ \E d \in delivered : d.id = 2
  /\ \A d \in delivered : d.id # 1
  /\ notified[2] = 1

\* C30: a submit and a decide of different ids that interleave lose no update:
\* the successful completion of decide(A), with A and B both pending, leaves B
\* in pending_transactions and removes A, and the successful completion of
\* submit(B) after decide(A) succeeded leaves A out of pending_transactions
\* and puts B in (each call being submitted once).
C30_SubmitDecideNoLostUpdate ==
  [][\A A, B \in Ids :
       (A # B /\ reposted = 0) =>
         /\ ( /\ \E k \in Slots : /\ decideH[k].pc = "set" /\ decideH[k].id = A
                                  /\ decideH'[k].pc = "none" /\ panelResp'[k] = "success"
              /\ A \in PendingIds(storage) /\ B \in PendingIds(storage) ) =>
               (B \in PendingIds(storage') /\ A \notin PendingIds(storage'))
         /\ ( /\ submitH[B].pc = "set" /\ submitH'[B].pc = "done"
              /\ notified[A] > 0 /\ A \notin PendingIds(storage) ) =>
               (B \in PendingIds(storage') /\ A \notin PendingIds(storage'))]_vars

\* C27: when the page channel dispatches a message that is not the relay's
\* envelope (its source is not the window itself, or its type is not
\* PLASMO_ETHEREUM_INTERCEPTED), the relay sends nothing to the coordinator
\* and posts nothing back into the page.
C27_RelayIgnoresOtherMessages ==
  [][\A m \in PageMessages :
       ( /\ m \in pageChan /\ m \notin pageChan'
         /\ (m.source # "window" \/ m.type # "PLASMO_ETHEREUM_INTERCEPTED") ) =>
          /\ relaySend' = relaySend
          /\ pageChan' = pageChan \ {m}
          /\ UNCHANGED coordVars]_vars

\* an interception envelope posted by another window, before the page made
\* any call, has been dispatched with the relay loaded and nothing was sent
C27_Witness ==
  /\ relayPresent
  /\ reposted = 1 /\ interceptCount = 0
  /\ pageChan = {}
  /\ \A id \in Ids : relaySend[id] = "none" /\ submitH[id].pc = "none"

\* C23: pending_transactions is written (set or removed) only by the
\* coordinator, in the storage callback of one of its handlers; no step of the
\* popup or of the relay changes its content.
C23_OnlyCoordinatorWritesStore ==
  [][storage' # storage =>
       \/ \E id \in Ids : submitH[id].pc = "set" /\ submitH'[id].pc = "done"
       \/ \E k \in Slots : decideH[k].pc = "set" /\ decideH'[k].pc = "none"]_vars

\* C25: every request the popup sends to the background script is answered
\* with a success-or-error response: no request's handling ends with the port
\* closed and no response given.
C25_EveryRequestAnswered ==
  \A t \in PanelRequests : panelReq[t].pc # "closed"

\* C28: the response to GET_PENDING_TRANSACTIONS carries the content that
\* pending_transactions has when the storage read completes without error, so
\* it reflects every submit and decide that completed before the read.
C28_ListPendingReadsStore ==
  [][( /\ panelReq["GET_PENDING_TRANSACTIONS"].pc = "get"
       /\ panelReq'["GET_PENDING_TRANSACTIONS"].pc = "responded"
       /\ ~panelReq'["GET_PENDING_TRANSACTIONS"].lastError ) =>
        panelReq'["GET_PENDING_TRANSACTIONS"].transactions = storage]_vars

\* a list requested after the submit of call 1 completed holds call 1
C28_Witness ==
  /\ panelReq["GET_PENDING_TRANSACTIONS"].pc = "responded"
  /\ ~panelReq["GET_PENDING_TRANSACTIONS"].lastError
  /\ submitH[1].pc = "done"
  /\ 1 \in PendingIds(panelReq["GET_PENDING_TRANSACTIONS"].transactions)
  /\ panelReq["GET_PENDING_TRANSACTIONS"].transactions = storage

\* C29: the risk analysis of a call, whatever its state (not requested,
\* loading, completed, error), leaves pending_transactions and the popup's
\* list unchanged when it starts or settles, and the Approve and Reject
\* buttons are rendered for every entry that is pending in the popup's list.
C29_AnalysisNeverBlocksDecision ==
  [][ /\ aiSummaries' # aiSummaries =>
           (storage' = storage /\ panelSnap' = panelSnap /\ decideH' = decideH)
      /\ \A i \in 1..Len(panelSnap) :
           panelSnap[i].status = "pending" =>
              ControlsShown(panelSnap[i], aiSummaries[panelSnap[i].id]) ]_vars

\* the analysis of a pending call failed, and a decision for that call was
\* sent and is being processed
C29_Witness ==
  \E k \in Slots :
    /\ decideH[k].pc = "get"
    /\ aiSummaries[decideH[k].id] = "error"
    /\ decideH[k].id \in PendingIds(storage)

\* ---- history-retaining coordinator with concurrent requests -------------
\* the page and popup of the history-retaining coordinator, before any call:
\* two calls and one decide request at a time, or one call and two
HistoryRaceInit ==
  /\ Init
  /\ workload.passes = 0 /\ workload.reposts = 0
  /\ relayPresent = TRUE
  /\ pageTab = 1

HistoryRaceNext ==
  \/ \E m \in Methods : Request(m)
  \/ \E id \in Ids : Timeout(id)
  \/ \E m \in PageMessages : PageMessage(m)
  \/ \E m \in TabMessages : TabMessage(m)
  \/ \E id \in Ids : SubmitStart(id)
  \/ \E id \in Ids : SubmitGet(id)
  \/ \E id \in Ids, lastError \in BOOLEAN : SubmitSet(id, lastError)
  \/ \E k \in Slots : HistoryDecideGet(k)
  \/ \E k \in Slots, lastError \in BOOLEAN : HistoryDecideSet(k, lastError)
  \/ HistoryUpdateBadge
  \/ PanelLoad
  \/ \E i \in 1..MaxCalls, approve \in BOOLEAN : PanelDecide(i, approve)

HistoryRaceSpec == HistoryRaceInit /\ [][HistoryRaceNext]_vars

\* the statuses intercepted_transactions records for call id
RecordedStatuses(id) ==
  {history[i].status : i \in {j \in 1..Len(history) : history[j].id = id}}

\* C31: under the history-retaining coordinator a call gets its terminal
\* status once (intercepted_transactions holds at most one entry for an id,
\* approved or rejected), and that status is the decision the interceptor
\* acted on for the id, however approve and reject requests interleave.
C31_RecordedStatusIsOutcome ==
  \A id \in Ids :
    /\ Cardinality({j \in 1..Len(history) : history[j].id = id}) <= 1
    /\ RecordedStatuses(id) \subseteq {"approved", "rejected"}
    /\ outcome[id] \in {"approved", "rejected"} => RecordedStatuses(id) \subseteq {outcome[id]}

\* C32: under the history-retaining coordinator no call id is at once in
\* pending_transactions and in intercepted_transactions.
C32_PendingAndHistoryDisjoint ==
  \A id \in Ids : ~(id \in PendingIds(storage) /\ RecordedStatuses(id) # {})

\* C33: each reviewable call makes the interceptor post exactly one
\* PLASMO_ETHEREUM_INTERCEPTED message, with an id no earlier call had and
\* status pending, and the call's promise is registered (with its timer) when
\* the message is posted; the interceptor posts no such message otherwise.
C33_OneMessagePerCall ==
  [][LET posted == {m \in pageChan' \ pageChan :
                      m.type = "PLASMO_ETHEREUM_INTERCEPTED" /\ m.source = "window"} IN
       /\ interceptCount' # interceptCount =>
            /\ interceptCount' = interceptCount + 1
            /\ outcome[interceptCount'] = "none"
            /\ \A m \in pageChan : m.source = "window" => m.id # interceptCount'
            /\ Cardinality(posted) = 1
            /\ \A m \in posted : m.id = interceptCount' /\ m.status = "pending"
            /\ interceptCount' \in pendingTransactions'
            /\ interceptCount' \in timers'
       /\ (interceptCount' = interceptCount /\ reposted' = reposted) => posted = {}]_vars

\* two reviewable calls were made and the message of each is on the page
\* channel, with both promises registered
C33_Witness ==
  /\ interceptCount = 2
  /\ pendingTransactions = {1, 2}
  /\ {m \in pageChan : m.type = "PLASMO_ETHEREUM_INTERCEPTED"} = {Intercepted(1), Intercepted(2)}

\* C34: the coordinator sends a decision message to the tab only in the
\* storage.set callback of a decide whose write completed without error (the
\* store then holds the array without the decided entry); when the write
\* fails, no decision message is sent, the store is unchanged and the
\* requester is answered success = false.
C34_DecisionOnlyAfterWrite ==
  [][/\ (tabMsgs' \ tabMsgs # {} \/ notified' # notified) =>
          \E k \in Slots :
            /\ decideH[k].pc = "set" /\ decideH'[k].pc = "none"
            /\ panelResp'[k] = "success"
            /\ storage' = decideH[k].val
            /\ tabMsgs' \ tabMsgs \subseteq
                 {DecisionMessage(decideH[k].approve, decideH[k].id, decideH[k].tabId)}
            /\ reposted = 0 => decideH[k].id \notin PendingIds(storage')
     /\ \A k \in Slots :
          (decideH[k].pc = "set" /\ decideH'[k].pc = "none" /\ panelResp'[k] = "lastError") =>
             (tabMsgs' = tabMsgs /\ notified' = notified /\ storage' = storage)]_vars

\* the write of a decide failed: the requester got the error, the call is
\* still pending and no decision message exists
C34_Witness ==
  \E k \in Slots :
    /\ panelResp[k] = "lastError" /\ decideH[k].pc = "none"
    /\ 1 \in PendingIds(storage)
    /\ notified[1] = 0 /\ tabMsgs = {}
    /\ outcome[1] = "suspended"

\* C35: a reviewable call made through the provider that window.ethereum
\* returns is intercepted: once the content script ran, no call through the
\* bound provider (present at installation or assigned later by the page)
\* reaches the wallet's request without passing a wrapper.
C35_BoundProviderCallIntercepted ==
  [][( /\ lastCall' # lastCall
       /\ lastCall'.provider = ethereum
       /\ hasRequest[ethereum] ) => lastCall'.messages >= 1]_vars

\* C40: every provider in the wrappedProviders WeakSet that has a request
\* method has the wrapper installed on it, also when the provider had no
\* request method when wrapRequestMethod first saw it and got one later.
C40_RecordedMeansWrapped ==
  \A p \in wrappedProviders : hasRequest[p] => layers[p] >= 1

\* messages of other types that chrome.runtime.onMessage can hand to the relay
OtherTabMessages ==
  {[type |-> t, transactionId |-> id, tab |-> tb] :
     t \in {"TRANSACTION_PENDING_APPROVAL", "UPDATE_BADGE"}, id \in Ids, tb \in Tabs}

\* C37: for each TRANSACTION_APPROVED or TRANSACTION_REJECTED message the
\* relay receives it posts one PLASMO_TRANSACTION_RESPONSE with the same id
\* and approved = (type is TRANSACTION_APPROVED), changing nothing else (it
\* keeps no state per id); for a message of another type it posts nothing.
C37_RelayPostsTheDecision ==
  [][/\ \A m \in TabMessages :
          (m \in tabMsgs /\ m \notin tabMsgs' /\ relayPresent /\ m.tab = pageTab) =>
             /\ pageChan' = pageChan \cup
                  {Response(m.transactionId, m.type = "TRANSACTION_APPROVED")}
             /\ relaySend' = relaySend
             /\ UNCHANGED << storage, submitH, decideH, notified >>
     /\ \A m \in OtherTabMessages : RelayDecisionPost(m) = {}]_vars

\* the approval of call 1 was posted into the page by the relay
C37_Witness ==
  /\ notified[1] = 1
  /\ tabMsgs = {}
  /\ Response(1, TRUE) \in pageChan


\* C38: a step of the interceptor that handles a decision message or a timeout
\* of call X (it removes X's entry of pendingTransactions or X's timer) leaves
\* every other call as it was: its entry, its timer, its outcome, its result
\* and what was forwarded for it; an entry that is left is still unsettled.
C38_SettlesOnlyItsOwnEntry ==
  [][\A X \in Ids :
       ((X \in pendingTransactions /\ X \notin pendingTransactions')
          \/ (X \in timers /\ X \notin timers')) =>
         \A Y \in Ids \ {X} :
           /\ (Y \in pendingTransactions') = (Y \in pendingTransactions)
           /\ (Y \in timers') = (Y \in timers)
           /\ outcome'[Y] = outcome[Y]
           /\ originalCalls'[Y] = originalCalls[Y]
           /\ pageResult'[Y] = pageResult[Y]
           /\ forwarded'[Y] = forwarded[Y]
           /\ (Y \in pendingTransactions' => outcome'[Y] = "suspended")]_vars

\* call 1 ended by its timeout while call 2 was suspended, and call 2 was
\* approved and forwarded afterwards
C38_Witness ==
  /\ outcome[1] = "timeout"
  /\ outcome[2] = "approved"
  /\ originalCalls[2] = 1
  /\ 2 \in timers


\* C36: a suspended call is resumed as approved only if the Coordinator
\* processed a successful approve for its id; a message of the page channel
\* that no Coordinator decision caused never makes the interceptor invoke the
\* original entry point. Every successful approve sends a decision message, so
\* at the least the original is invoked only for an id for which the
\* Coordinator has sent one.
C36_ResumedOnlyByCoordinator ==
  \A id \in Ids : originalCalls[id] > 0 => notified[id] > 0


\* ---- clearing the pending collection while requests are in flight --------
ClearRaceInit ==
  /\ Init
  /\ workload.passes = 0 /\ workload.reposts = 0
  /\ relayPresent = TRUE
  /\ pageTab = 1

ClearRaceNext ==
  \/ \E m \in Methods : Request(m)
  \/ \E id \in Ids : Timeout(id)
  \/ \E m \in PageMessages : PageMessage(m)
  \/ \E m \in TabMessages : TabMessage(m)
  \/ \E id \in Ids : SubmitStart(id)
  \/ \E id \in Ids : SubmitGet(id)
  \/ \E id \in Ids, lastError \in BOOLEAN : SubmitSet(id, lastError)
  \/ \E k \in Slots : DecideGet(k)
  \/ \E k \in Slots, lastError \in BOOLEAN : DecideSet(k, lastError)
  \/ UpdateBadge
  \/ PanelLoad
  \/ \E i \in 1..MaxCalls, approve \in BOOLEAN : PanelDecide(i, approve)
  \/ \E lastError \in BOOLEAN : PanelClear(lastError)
  \/ OnMessage("UPDATE_BADGE")
  \/ \E lastError \in BOOLEAN : ClearPendingTransactions(lastError)

ClearRaceSpec == ClearRaceInit /\ [][ClearRaceNext]_vars

\* C39: a clear (the background script's or the popup's) empties
\* pending_transactions and sends no decision message; a call that is
\* suspended and whose id a clear has removed never reaches the original
\* entry point and ends only by its timeout.
C39_ClearedCallsEndByTimeout ==
  [][/\ cleared' # cleared =>
          /\ storage' = <<>>
          /\ tabMsgs' = tabMsgs
          /\ notified' = notified
     /\ \A id \in cleared :
          outcome[id] = "suspended" =>
            /\ outcome'[id] \in {"suspended", "timeout"}
            /\ originalCalls'[id] = originalCalls[id]]_vars

====
